---- MODULE Spec2Model ----
(***************************************************************************)
(* Remote-storage PromQL search path                                       *)
(* (src/service/promql/search/grpc/storage.rs).                            *)
(*                                                                         *)
(* Each element of Procs is one caller running `search` again and again.   *)
(* Every await point of search / StorageProvider::create_context / the     *)
(* spawned download tasks is a step boundary, so the tokio scheduler's     *)
(* interleavings are the interleavings of the actions below.               *)
(***************************************************************************)
EXTENDS Integers, Sequences, FiniteSets, TLC

\* ---------------------------------------------------------------- bounds
NumProcs == 2      \* concurrent callers of search
MaxFiles == 2      \* file identifiers, and longest list the index returns
MaxThreads == 2    \* largest configured CONFIG.limit.query_thread_num

Procs == 1..NumProcs
Files == 1..MaxFiles
SessionIds == Procs
ThreadNums == 1..MaxThreads

VARIABLES
    query_thread_num,  \* CONFIG.limit.query_thread_num, fixed at start-up
    allowed,           \* the session ids each caller may present
    cache,             \* infra::cache::file_data: files present locally
    sessions,          \* datafusion::storage::file_list: state per session id
    pc,                \* where each caller's search invocation stands
    session_id,        \* search's session_id argument
    files,             \* create_context's `files`
    tasks,             \* create_context's `tasks`, with each task's progress
    permits,           \* free permits of create_context's `semaphore`
    joined,            \* number of tasks the join loop has awaited
    cc,                \* what create_context returned
    result,            \* what search returned
    ops,               \* collaborator operations performed by this invocation
    cause,             \* message of the failure that ended this invocation
    listing,           \* what get_file_list last worked on: index answer, predicate
    attempts           \* per entry of `files`: its task's check and downloads

vars == << query_thread_num, allowed, cache, sessions, pc, session_id, files,
           tasks, permits, joined, cc, result, ops, cause, listing, attempts >>

\* ------------------------------------------------------------ collaborators
\* No binding registered under a session id.
NoSession == 0

\* file_data::exist(&file): a Result<bool>; the cache answers from its index.
exist(f) == [ok |-> TRUE, val |-> f \in cache]

\* Result<bool>::unwrap_or_default(): an Err counts as "not present".
unwrap_or_default(r) == IF r.ok THEN r.val ELSE FALSE

\* A successful file_data::download(&file) leaves the file in the cache; a
\* failed one leaves the cache as it was. Nothing is ever evicted.
download(c, f, outcome) == IF outcome = "ok" THEN c \cup {f} ELSE c

\* register_table(&session, stream, schema, stream_name, &files, ..): binds the
\* table of invocation p (its stream name, schema and file set) under the
\* session id, replacing what was bound there.
register_table(s, sid, p) == [s EXCEPT ![sid] = p]

\* storage::file_list::clear(session_id): drops what is bound under the id.
clear(s, sid) == [s EXCEPT ![sid] = NoSession]

\* Messages the metadata index may fail with.
IndexErrors == {"index unreachable", "index timeout"}

\* No get_file_list answer at hand.
NoListing == [results |-> << >>, matching |-> {}]

\* All sequences over S of length at most n.
SeqsUpTo(S, n) == UNION {[1..k -> S] : k \in 0..n}

\* ------------------------------------------------------------ get_file_list
\* Variant: the filter loop keeps every entry of the index answer.
FilterFilesAll(results, matching) == results

\* The filter loop of get_file_list: keeps, in index order, the entries for
\* which match_source holds (matching = the files the predicate accepts).
RECURSIVE FilterFiles(_, _)
FilterFiles(results, matching) ==
    IF results = << >> THEN << >>
    ELSE IF Head(results) \in matching
         THEN << Head(results) >> \o FilterFiles(Tail(results), matching)
         ELSE FilterFiles(Tail(results), matching)

\* Variant: the error handed on carries the message of the index error.
FileListErrorOf(err) == err

\* get_file_list, Err branch: the index error is logged and a fixed message
\* is returned in DataFusionError::Execution.
FileListError(err) == "get file list error"

\* DataFusionError::Execution(err.to_string()): the message of err.
ExecutionError(err) == err

\* ------------------------------------------------------------- create_context
\* Variant: the empty-list short circuit is missing.
is_empty_never(fs) == FALSE

\* files.is_empty()
is_empty(fs) == Len(fs) = 0

\* Variant: the join loop does not wait for the tasks.
JoinPcSkip(n, j) == "schema"

\* `for task in tasks`: next position after j of n tasks were awaited.
JoinPc(n, j) == IF j < n THEN "join" ELSE "schema"

\* Variant: the dispatch loop ends after its first spawn.
DispatchPcStop(n, k) == IF k < 1 THEN "dispatch" ELSE "join"

\* `for file in files.iter()`: next position after k of n files were spawned.
DispatchPc(n, k) == IF k < n THEN "dispatch" ELSE JoinPc(n, 0)

\* Variant: the dispatch loop spawns without waiting for a permit.
CanAcquireAlways(n) == TRUE

\* semaphore.acquire_owned().await completes only when a permit is free.
CanAcquire(n) == n > 0

\* Variant: the task downloads whatever the existence check said.
NeedDownloadAlways(r) == TRUE

\* `if !file_data::exist(&file).unwrap_or_default()`
NeedDownload(r) == ~unwrap_or_default(r)

\* Variant: every provider registers under one fixed session id.
SearchSessionIdFixed(p) == 1

\* SearchSession { id: self.session_id.clone(), .. }
SearchSessionId(p) == session_id[p]

\* Tasks of p that hold a permit: spawned and not yet past drop(permit).
Running(p) == {i \in DOMAIN tasks[p] : tasks[p][i].st \in {"spawned", "downloading"}}

InFlight(p) == Cardinality(Running(p))

\* A sequence without its i-th element.
RemoveAt(seq, i) == SubSeq(seq, 1, i - 1) \o SubSeq(seq, i + 1, Len(seq))

\* A task reaches its end as record t. While create_context still holds the
\* join handle the outcome waits there; a task whose handle was dropped is
\* detached and its outcome is discarded.
Finish(p, i, t) ==
    IF pc[p] = "idle" THEN [tasks EXCEPT ![p] = RemoveAt(@, i)]
    ELSE [tasks EXCEPT ![p][i] = t]

\* Variant: the permit is never given back.
ReleaseNever(p) == permits

\* drop(permit): gives the permit back to the semaphore, if it still exists.
Release(p) ==
    IF pc[p] = "idle" THEN permits ELSE [permits EXCEPT ![p] = @ + 1]

\* search returns msg to its caller: the locals of search and create_context
\* are dropped; tasks that are still running are detached and run on.
Return(p, msg) ==
    /\ pc' = [pc EXCEPT ![p] = "idle"]
    /\ result' = [result EXCEPT ![p] = msg]
    /\ files' = [files EXCEPT ![p] = << >>]
    /\ tasks' = [tasks EXCEPT ![p] =
          SelectSeq(@, LAMBDA t : t.st \in {"spawned", "downloading"})]
    /\ permits' = [permits EXCEPT ![p] = 0]
    /\ joined' = [joined EXCEPT ![p] = 0]

\* create_context returns Err(msg); engine.exec and search pass it on with `?`.
ReturnErr(p, msg) ==
    /\ cc' = [cc EXCEPT ![p] = "err"]
    /\ cause' = [cause EXCEPT ![p] = msg]
    /\ Return(p, ExecutionError(msg))

\* ------------------------------------------------------------------ actions
\* Variant: a parse failure is logged and the query is run all the same.
ParsePcIgnore(parsed) == "get_file_list"

\* parser::parse(..).map_err(..)?: a parse failure returns at once.
ParsePc(parsed) == IF parsed THEN "get_file_list" ELSE "idle"

\* Variant: a failed schema fetch is passed over.
SchemaFailedNever(ok) == FALSE

\* `match db::schema::get(..).await`: the Err branch.
SchemaFailed(ok) == ~ok

\* Variant: a failed download is tried again.
AfterDownloadRetry(outcome) ==
    IF outcome = "panic" THEN "panicked"
    ELSE IF outcome = "err" THEN "spawned" ELSE "done"

\* The task after its download: an Err is logged and the task ends with
\* Ok(()) like a success; a panic ends it with a JoinError.
AfterDownload(outcome) == IF outcome = "panic" THEN "panicked" ELSE "done"

\* search: parse the query; on success engine.exec calls create_context.
Search(p) ==
    /\ pc[p] = "idle"
    /\ Running(p) = {}
    /\ \E sid \in allowed[p], parsed \in BOOLEAN :
        /\ session_id' = [session_id EXCEPT ![p] = sid]
        /\ pc' = [pc EXCEPT ![p] = ParsePc(parsed)]
        /\ result' = [result EXCEPT ![p] =
              IF parsed THEN "none" ELSE ExecutionError("parse error")]
        /\ cause' = [cause EXCEPT ![p] = IF parsed THEN "none" ELSE "parse error"]
    /\ cc' = [cc EXCEPT ![p] = "none"]
    /\ ops' = [ops EXCEPT ![p] = {}]
    /\ attempts' = [attempts EXCEPT ![p] = << >>]
    /\ UNCHANGED << query_thread_num, allowed, listing, cache, sessions, files,
                    tasks, permits, joined >>

\* create_context: get_file_list failed.
GetFileListErr(p) ==
    /\ pc[p] = "get_file_list"
    /\ ops' = [ops EXCEPT ![p] = @ \cup {"index"}]
    /\ \E err \in IndexErrors :
        /\ cause' = [cause EXCEPT ![p] = err]
        /\ Return(p, FileListError(err))
    /\ cc' = [cc EXCEPT ![p] = "err"]
    /\ UNCHANGED << query_thread_num, allowed, listing, attempts, cache,
                    sessions, session_id >>

\* create_context: get_file_list succeeded; an empty list short-circuits,
\* otherwise the semaphore is created and the dispatch loop starts.
GetFileList(p) ==
    /\ pc[p] = "get_file_list"
    /\ \E results \in SeqsUpTo(Files, MaxFiles), matching \in SUBSET Files :
        LET fs == FilterFiles(results, matching) IN
        /\ listing' = [listing EXCEPT ![p] =
              [results |-> results, matching |-> matching]]
        /\ files' = [files EXCEPT ![p] = fs]
        /\ attempts' = [attempts EXCEPT ![p] =
              [i \in 1..Len(fs) |-> [exist |-> "unchecked", dl |-> 0]]]
        /\ IF is_empty(fs)
           THEN /\ cc' = [cc EXCEPT ![p] = "empty"]
                /\ pc' = [pc EXCEPT ![p] = "eval"]
                /\ permits' = permits
           ELSE /\ cc' = cc
                /\ pc' = [pc EXCEPT ![p] = DispatchPc(Len(fs), 0)]
                /\ permits' = [permits EXCEPT ![p] = query_thread_num]
    /\ ops' = [ops EXCEPT ![p] = @ \cup {"index"}]
    /\ UNCHANGED << query_thread_num, allowed, cause, cache, sessions,
                    session_id, tasks, joined, result >>

\* One iteration of the dispatch loop: acquire a permit, spawn the task.
Dispatch(p) ==
    /\ pc[p] = "dispatch"
    /\ Len(tasks[p]) < Len(files[p])
    /\ CanAcquire(permits[p])
    /\ permits' = [permits EXCEPT ![p] = @ - 1]
    /\ tasks' = [tasks EXCEPT ![p] =
          Append(@, [file |-> files[p][Len(@) + 1], idx |-> Len(@) + 1,
                     st |-> "spawned", exist |-> "unchecked", dl |-> "none"])]
    /\ pc' = [pc EXCEPT ![p] = DispatchPc(Len(files[p]), Len(tasks[p]) + 1)]
    /\ listing' = [listing EXCEPT ![p] = NoListing]
    /\ UNCHANGED << query_thread_num, allowed, cause, attempts, cache, sessions,
                    session_id, files, joined, cc, result, ops >>

\* A spawned task runs: existence check, then either starts the download or
\* drops its permit and finishes.
TaskRun(p, i) ==
    /\ i \in DOMAIN tasks[p]
    /\ tasks[p][i].st = "spawned"
    /\ LET t == tasks[p][i]
           r == exist(t.file)
           present == IF unwrap_or_default(r) THEN "true" ELSE "false"
       IN IF NeedDownload(r)
          THEN /\ tasks' = [tasks EXCEPT ![p][i] =
                      [t EXCEPT !.st = "downloading", !.exist = present,
                                !.dl = "running"]]
               /\ ops' = [ops EXCEPT ![p] = @ \cup {"exist", "download"}]
               /\ attempts' = [attempts EXCEPT ![p][t.idx] =
                      [exist |-> present, dl |-> @.dl + 1]]
               /\ permits' = permits
          ELSE /\ tasks' = Finish(p, i, [t EXCEPT !.st = "done", !.exist = present])
               /\ ops' = [ops EXCEPT ![p] = @ \cup {"exist"}]
               /\ attempts' = [attempts EXCEPT ![p][t.idx].exist = present]
               /\ permits' = Release(p)
    /\ UNCHANGED << query_thread_num, allowed, cause, listing, cache, sessions,
                    pc, session_id, files, joined, cc, result >>

\* The download of a task ends: success, an error (logged, the task still
\* returns Ok(())), or a panic (the join handle yields a JoinError). The
\* permit is dropped in every case.
TaskDownloadEnd(p, i) ==
    /\ i \in DOMAIN tasks[p]
    /\ tasks[p][i].st = "downloading"
    /\ \E outcome \in {"ok", "err", "panic"} :
        /\ cache' = download(cache, tasks[p][i].file, outcome)
        /\ tasks' = Finish(p, i, [tasks[p][i] EXCEPT
              !.st = AfterDownload(outcome), !.dl = outcome])
        /\ ops' = [ops EXCEPT ![p] =
              IF outcome = "ok" THEN @
              ELSE IF outcome = "err" THEN @ \cup {"download failed"}
              ELSE @ \cup {"task panicked"}]
    /\ permits' = Release(p)
    /\ UNCHANGED << query_thread_num, allowed, cause, listing, attempts,
                    sessions, pc, session_id, files, joined, cc, result >>

\* One iteration of the join loop: the next task has finished. A JoinError
\* (or an Err from the task) makes create_context return at once.
Join(p) ==
    /\ pc[p] = "join"
    /\ joined[p] < Len(tasks[p])
    /\ LET t == tasks[p][joined[p] + 1] IN
        /\ t.st \in {"done", "panicked"}
        /\ IF t.st = "panicked"
           THEN /\ ReturnErr(p, "join error")
                /\ attempts' = attempts
           ELSE /\ pc' = [pc EXCEPT ![p] = JoinPc(Len(tasks[p]), joined[p] + 1)]
                /\ IF joined[p] + 1 = Len(tasks[p])
                   THEN /\ tasks' = [tasks EXCEPT ![p] = << >>]
                        /\ joined' = [joined EXCEPT ![p] = 0]
                        /\ permits' = [permits EXCEPT ![p] = 0]
                        /\ attempts' = [attempts EXCEPT ![p] = << >>]
                   ELSE /\ tasks' = tasks
                        /\ joined' = [joined EXCEPT ![p] = @ + 1]
                        /\ permits' = permits
                        /\ attempts' = attempts
                /\ UNCHANGED << files, cc, result, cause >>
    /\ UNCHANGED << query_thread_num, allowed, listing, cache, sessions,
                    session_id, ops >>

\* db::schema::get
SchemaGet(p) ==
    /\ pc[p] = "schema"
    /\ \E ok \in BOOLEAN :
        /\ ops' = [ops EXCEPT ![p] =
              @ \cup (IF ok THEN {"schema"} ELSE {"schema", "schema failed"})]
        /\ IF SchemaFailed(ok)
           THEN ReturnErr(p, "schema error")
           ELSE /\ pc' = [pc EXCEPT ![p] = "register"]
                /\ UNCHANGED << files, tasks, permits, joined, cc, result, cause >>
    /\ UNCHANGED << query_thread_num, allowed, listing, attempts, cache,
                    sessions, session_id >>

\* register_table under the provider's session id.
RegisterTable(p) ==
    /\ pc[p] = "register"
    /\ ops' = [ops EXCEPT ![p] = @ \cup {"register"}]
    /\ \E ok \in BOOLEAN :
        IF ok
        THEN /\ sessions' = register_table(sessions, SearchSessionId(p), p)
             /\ cc' = [cc EXCEPT ![p] = "table"]
             /\ pc' = [pc EXCEPT ![p] = "eval"]
             /\ UNCHANGED << files, tasks, permits, joined, result, cause >>
        ELSE /\ ReturnErr(p, "bind error")
             /\ sessions' = sessions
    /\ UNCHANGED << query_thread_num, allowed, listing, attempts, cache,
                    session_id >>

\* engine.exec finishes evaluating over what create_context returned; an
\* error leaves search through `?`, before the session is cleared.
Evaluate(p) ==
    /\ pc[p] = "eval"
    /\ ops' = [ops EXCEPT ![p] = @ \cup {"eval"}]
    /\ IF cc[p] = "empty"
       THEN /\ pc' = [pc EXCEPT ![p] = "clear"]
            /\ result' = [result EXCEPT ![p] = "nodata"]
            /\ UNCHANGED << files, tasks, permits, joined, cause >>
       ELSE \E ok \in BOOLEAN :
            IF ok
            THEN /\ pc' = [pc EXCEPT ![p] = "clear"]
                 /\ result' = [result EXCEPT ![p] = "value"]
                 /\ UNCHANGED << files, tasks, permits, joined, cause >>
            ELSE /\ cause' = [cause EXCEPT ![p] = "eval error"]
                 /\ Return(p, ExecutionError("eval error"))
    /\ listing' = [listing EXCEPT ![p] = NoListing]
    /\ UNCHANGED << query_thread_num, allowed, attempts, cache, sessions,
                    session_id, cc >>

\* search: clear the session, return Ok(data).
Clear(p) ==
    /\ pc[p] = "clear"
    /\ sessions' = clear(sessions, session_id[p])
    /\ ops' = [ops EXCEPT ![p] = @ \cup {"clear"}]
    /\ Return(p, result[p])
    /\ UNCHANGED << query_thread_num, allowed, cause, listing, attempts, cache,
                    session_id, cc >>

\* ------------------------------------------------------------ specification
\* The state at process start, but for the configuration.
InitState ==
    /\ cache = {}
    /\ sessions = [s \in SessionIds |-> NoSession]
    /\ pc = [p \in Procs |-> "idle"]
    /\ session_id = [p \in Procs |-> p]
    /\ files = [p \in Procs |-> << >>]
    /\ tasks = [p \in Procs |-> << >>]
    /\ permits = [p \in Procs |-> 0]
    /\ joined = [p \in Procs |-> 0]
    /\ cc = [p \in Procs |-> "none"]
    /\ result = [p \in Procs |-> "none"]
    /\ ops = [p \in Procs |-> {}]
    /\ cause = [p \in Procs |-> "none"]
    /\ listing = [p \in Procs |-> NoListing]
    /\ attempts = [p \in Procs |-> << >>]

\* Every caller presents a session id of its own.
Init ==
    /\ InitState
    /\ query_thread_num \in ThreadNums
    /\ allowed = [p \in Procs |-> {p}]

\* One caller only: the other callers never call search.
InitSingle ==
    /\ InitState
    /\ query_thread_num \in ThreadNums
    /\ allowed = [p \in Procs |-> IF p = 1 THEN {1} ELSE {}]

\* Every caller presents the same session id.
InitShared ==
    /\ InitState
    /\ query_thread_num \in ThreadNums
    /\ allowed = [p \in Procs |-> {1}]

\* One caller, and a configuration that may also set query_thread_num to 0.
InitLoader ==
    /\ InitState
    /\ query_thread_num \in 0..MaxThreads
    /\ allowed = [p \in Procs |-> IF p = 1 THEN {1} ELSE {}]

Next ==
    \/ \E p \in Procs : Search(p)
    \/ \E p \in Procs : GetFileListErr(p)
    \/ \E p \in Procs : GetFileList(p)
    \/ \E p \in Procs : Dispatch(p)
    \/ \E p \in Procs : \E i \in 1..MaxFiles : TaskRun(p, i)
    \/ \E p \in Procs : \E i \in 1..MaxFiles : TaskDownloadEnd(p, i)
    \/ \E p \in Procs : Join(p)
    \/ \E p \in Procs : SchemaGet(p)
    \/ \E p \in Procs : RegisterTable(p)
    \/ \E p \in Procs : Evaluate(p)
    \/ \E p \in Procs : Clear(p)

\* The tokio runtime keeps polling a task that can make progress: the
\* dispatch loop, the spawned tasks and the join loop are not starved, and
\* every existence check and download comes to an end.
Fairness ==
    \A p \in Procs :
        /\ WF_vars(Dispatch(p))
        /\ WF_vars(Join(p))
        /\ \A i \in 1..MaxFiles :
              WF_vars(TaskRun(p, i)) /\ WF_vars(TaskDownloadEnd(p, i))

Spec == Init /\ [][Next]_vars

SpecShared == InitShared /\ [][Next]_vars

SpecSingle == InitSingle /\ [][Next]_vars

SpecSingleFair == InitSingle /\ [][Next]_vars /\ Fairness

SpecLoaderFair == InitLoader /\ [][Next]_vars /\ Fairness

\* ------------------------------------------------------------------ claims
\* The stages of create_context that follow the loading phase, and the
\* stages of search that follow create_context.
AfterLoad == {"schema", "register", "eval", "clear"}

\* search has returned to its caller.
Returned(p) == pc[p] = "idle" /\ result[p] # "none"

\* C1: whenever search has returned, on whatever path, nothing is registered
\* under the session id it was called with.
SessionClearedOnReturn ==
    \A p \in Procs : Returned(p) => sessions[session_id[p]] = NoSession

\* C2: in one cache-load operation the tasks between permit acquisition and
\* permit release never number more than query_thread_num, and while the
\* loading phase lasts every permit is either free or held by such a task.
PermitBound ==
    \A p \in Procs :
        /\ InFlight(p) <= query_thread_num
        /\ pc[p] \in {"dispatch", "join"} =>
              permits[p] + InFlight(p) = query_thread_num

\* C2 witness: the dispatch loop waits for a permit, all of them being held
\* by running tasks, with files still to dispatch.
PermitBoundWitness ==
    \E p \in Procs :
        /\ pc[p] = "dispatch"
        /\ Len(tasks[p]) < Len(files[p])
        /\ permits[p] = 0
        /\ InFlight(p) = query_thread_num

\* Downloads in flight in the whole process.
Downloading ==
    {pi \in Procs \X (1..MaxFiles) :
        /\ pi[2] \in DOMAIN tasks[pi[1]]
        /\ tasks[pi[1]][pi[2]].st = "downloading"}

\* C3: the downloads in flight across all invocations never number more
\* than query_thread_num.
GlobalDownloadBound == Cardinality(Downloading) <= query_thread_num

\* C4: once a download of the load operation has failed, create_context does
\* not go on to fetch the schema or register the table.
DownloadFailureFailsLoad ==
    \A p \in Procs : "download failed" \in ops[p] => pc[p] \notin AfterLoad

\* C5: create_context has left the loading phase only if none of the tasks it
\* dispatched is still running.
AllTasksAwaited ==
    \A p \in Procs : pc[p] \notin {"dispatch", "join"} => Running(p) = {}

\* C6: the cache never loses a file, whatever the outcome of the load
\* operations, and a task issues a download only for a file that is not in
\* the cache: a load over files that are already cached downloads nothing.
CacheIdempotent ==
    [][ /\ cache \subseteq cache'
        /\ \A p \in Procs : \A i \in 1..MaxFiles :
              (/\ TaskRun(p, i)
               /\ Len(tasks'[p]) = Len(tasks[p])
               /\ tasks'[p][i].st = "downloading")
                  => tasks[p][i].file \notin cache ]_vars

\* C6 witness: a load operation has failed with files left in the cache, and
\* a task of another load operation has found its file cached and finished
\* without downloading.
CacheIdempotentWitness ==
    \E q \in Procs :
        /\ pc[q] = "idle" /\ result[q] = "join error"
        /\ \E p \in Procs \ {q} : \E i \in DOMAIN tasks[p] :
              /\ tasks[p][i].exist = "true"
              /\ tasks[p][i].file \in cache

\* C7: a task downloads only after its own existence check did not report
\* the file present; a task whose check reported the file present finishes
\* without a download.
DownloadOnlyIfAbsent ==
    \A p \in Procs : \A i \in DOMAIN tasks[p] :
        LET t == tasks[p][i] IN
        /\ t.dl # "none" => t.exist = "false"
        /\ t.exist = "true" => t.dl = "none" /\ t.st = "done"

\* C7 witness: in one load operation one task skipped the download of a file
\* reported present and another one downloaded a file reported absent.
DownloadOnlyIfAbsentWitness ==
    \E p \in Procs : \E i, j \in DOMAIN tasks[p] :
        /\ tasks[p][i].exist = "true" /\ tasks[p][i].dl = "none"
        /\ tasks[p][j].exist = "false" /\ tasks[p][j].dl = "ok"

SessionIsolation ==
    /\ [](\A p \in Procs :
            /\ sessions[session_id[p]] \in {NoSession, p}
            /\ (pc[p] \in {"eval", "clear"} /\ cc[p] = "table")
                  => sessions[session_id[p]] = p)
    /\ [][\A s \in SessionIds :
            sessions'[s] # sessions[s] =>
                \E q \in Procs :
                    session_id[q] = s /\ (RegisterTable(q) \/ Clear(q))]_vars

\* C9 witness: two invocations with different session ids have their tables
\* bound at the same time.
SessionIsolationWitness ==
    \E p, q \in Procs :
        /\ p # q /\ session_id[p] # session_id[q]
        /\ pc[p] = "eval" /\ cc[p] = "table" /\ sessions[session_id[p]] = p
        /\ pc[q] = "eval" /\ cc[q] = "table" /\ sessions[session_id[q]] = q

\* C10: also with a shared session id, an invocation about to evaluate finds
\* bound under its session id the table it registered itself.
OwnBindingSeen ==
    \A p \in Procs :
        (pc[p] = "eval" /\ cc[p] = "table") => sessions[session_id[p]] = p

\* C11: every failure that ends search reaches the caller with the message of
\* the failure it comes from.
ErrorCarriesCause ==
    \A p \in Procs :
        (Returned(p) /\ cause[p] # "none") => result[p] = cause[p]

\* C12: a failed schema fetch ends create_context with an error and without a
\* registration, and register_table is reached only after a schema fetch of
\* the same call that succeeded.
SchemaBeforeRegister ==
    \A p \in Procs :
        /\ "schema failed" \in ops[p] =>
              /\ pc[p] = "idle" /\ cc[p] = "err"
              /\ result[p] = "schema error"
              /\ "register" \notin ops[p]
        /\ (pc[p] = "register" \/ "register" \in ops[p]) =>
              "schema" \in ops[p] /\ "schema failed" \notin ops[p]

\* C12 witness: search has returned after a failed schema fetch.
SchemaBeforeRegisterWitness ==
    \E p \in Procs : Returned(p) /\ "schema failed" \in ops[p]

\* C13: once the table is registered every file of the registered list is in
\* the cache.
RegisteredFilesCached ==
    \A p \in Procs :
        (pc[p] = "eval" /\ cc[p] = "table") =>
            \A i \in DOMAIN files[p] : files[p][i] \in cache

\* C14: the stages follow one another: nothing before the file list is
\* resolved, no schema fetch or registration while a task of the call is
\* unfinished, registration after the schema fetch, evaluation after
\* create_context returned, clear after the evaluation; and a returned search
\* is either cleared with a value or failed with an error, never both.
StageOrder ==
    \A p \in Procs :
        LET o == ops[p] IN
        /\ (o # {} \/ tasks[p] # << >>) => "index" \in o
        /\ ("schema" \in o \/ pc[p] \in AfterLoad) =>
              /\ tasks[p] = << >>
              /\ cc[p] = "empty" \/ "exist" \in o
        /\ "register" \in o => "schema" \in o
        /\ "eval" \in o =>
              /\ cc[p] \in {"table", "empty"}
              /\ cc[p] = "table" => "register" \in o
        /\ "clear" \in o => "eval" \in o /\ result[p] \in {"value", "nodata"}
        /\ Returned(p) => (("clear" \in o) # (cause[p] # "none"))

\* C14 witness: a search that went through every stage and returned a value.
StageOrderWitness ==
    \E p \in Procs :
        /\ Returned(p) /\ result[p] = "value"
        /\ {"index", "exist", "download", "schema", "register", "eval", "clear"}
              \subseteq ops[p]

\* The task of entry i of p's file list has made its existence check, and
\* has started a download if the check found the file absent.
Attempted(p, i) ==
    /\ i \in DOMAIN attempts[p]
    /\ attempts[p][i].exist # "unchecked"
    /\ attempts[p][i].exist = "false" => attempts[p][i].dl >= 1

\* C15: every entry of a resolved file list eventually gets its existence
\* check, and a download attempt if absent, whatever happens to the downloads
\* of the other entries.
SiblingsProceed ==
    \A p \in Procs : \A i \in 1..MaxFiles :
        (i \in DOMAIN attempts[p]) ~> Attempted(p, i)

\* C15 witness: both entries of a list got their download attempt although a
\* download of that load operation failed.
SiblingsProceedWitness ==
    \E p \in Procs :
        /\ Len(attempts[p]) = 2
        /\ Attempted(p, 1) /\ attempts[p][1].dl = 1
        /\ Attempted(p, 2) /\ attempts[p][2].dl = 1
        /\ "download failed" \in ops[p]

\* get_file_list has just returned to create_context.
JustResolved(p) ==
    \/ pc[p] = "dispatch" /\ tasks[p] = << >>
    \/ pc[p] = "eval" /\ cc[p] = "empty" /\ "eval" \notin ops[p]

\* C16: get_file_list returns exactly the entries of the index answer that
\* the relevance predicate accepts, in the order of the index answer.
FilterExact ==
    \A p \in Procs :
        JustResolved(p) =>
            files[p] = SelectSeq(listing[p].results,
                                 LAMBDA f : f \in listing[p].matching)

\* C16 witness: of two files the index returned, the one the predicate
\* accepts is the resolved list.
FilterExactWitness ==
    \E p \in Procs :
        /\ JustResolved(p)
        /\ listing[p] = [results |-> << 1, 2 >>, matching |-> {1}]
        /\ files[p] = << 1 >>

\* C17: the resolved file list holds no file twice.
NoDuplicateFiles ==
    \A p \in Procs : \A i, j \in DOMAIN files[p] :
        i # j => files[p][i] # files[p][j]

\* C18: in one call the index is queried once, each entry of the list gets at
\* most one download attempt and the schema is fetched at most once; after an
\* index failure nothing else is done.
NoRetries ==
    /\ [](\A p \in Procs :
            /\ \A i \in DOMAIN attempts[p] : attempts[p][i].dl <= 1
            /\ pc[p] \notin {"idle", "get_file_list"} => "index" \in ops[p]
            /\ result[p] = "get file list error" => ops[p] = {"index"})
    /\ [][\A p \in Procs :
            /\ (GetFileList(p) \/ GetFileListErr(p)) => "index" \notin ops[p]
            /\ SchemaGet(p) => "schema" \notin ops[p]]_vars

\* C18 witness: a download has failed, its task has ended and the entry has
\* had its one attempt.
NoRetriesWitness ==
    \E p \in Procs : \E i \in DOMAIN tasks[p] :
        /\ pc[p] = "join"
        /\ tasks[p][i].dl = "err" /\ tasks[p][i].st = "done"
        /\ attempts[p][tasks[p][i].idx].dl = 1

\* Every task of p's load operation has ended.
AllEnded(p) ==
    /\ Len(tasks[p]) = Len(files[p])
    /\ \A i \in DOMAIN tasks[p] : tasks[p][i].st \in {"done", "panicked"}

\* C19: with at least one permit the loading phase always comes to an end
\* with no task holding a permit, and when every task has ended, however its
\* download went, all query_thread_num permits are free again; with no permit
\* the dispatch loop stays at its first acquisition.
LoaderTerminates ==
    /\ \A p \in Procs :
          (query_thread_num >= 1 /\ pc[p] = "dispatch")
              ~> (pc[p] \notin {"dispatch", "join"} /\ Running(p) = {})
    /\ [](\A p \in Procs :
            (pc[p] = "join" /\ AllEnded(p)) => permits[p] = query_thread_num)
    /\ [][\A p \in Procs :
            (query_thread_num = 0 /\ pc[p] = "dispatch")
                => (pc'[p] = "dispatch" /\ tasks'[p] = << >>)]_vars

\* C19 witness: every task of a two-file load has ended, one of them after a
\* failed download, and all permits are free.
LoaderTerminatesWitness ==
    \E p \in Procs :
        /\ pc[p] = "join" /\ AllEnded(p) /\ Len(tasks[p]) = 2
        /\ "download failed" \in ops[p]
        /\ permits[p] = query_thread_num

\* C20: a search whose query does not parse has returned without any
\* collaborator operation, and its step leaves cache and sessions as they were.
ParseFailureNoEffect ==
    /\ [](\A p \in Procs :
            result[p] = "parse error" =>
                /\ pc[p] = "idle" /\ ops[p] = {} /\ cc[p] = "none"
                /\ tasks[p] = << >>)
    /\ [][\A p \in Procs :
            (Search(p) /\ result'[p] = "parse error")
                => (cache' = cache /\ sessions' = sessions)]_vars

\* C20 witness: a parse failure returned while the cache held files and a
\* binding was registered under the session id; both are still there.
ParseFailureNoEffectWitness ==
    \E p \in Procs :
        /\ Returned(p) /\ result[p] = "parse error"
        /\ cache # {}
        /\ sessions[session_id[p]] # NoSession

====
